---------------------------- MODULE Spec2Model ----------------------------
(***************************************************************************)
(* E-cash coin acceptance and double-spend adjudication (Lab5/driver.js).  *)
(*                                                                         *)
(* Strings are sequences of UTF-16 code units, buffers are sequences of    *)
(* bytes (0..255).  The JavaScript value undefined is the sequence <<-1>>, *)
(* which is neither a string nor a buffer.                                 *)
(***************************************************************************)
EXTENDS Integers, Sequences, FiniteSets, TLC

(***************************************************************************)
(* Bounds of the model.                                                    *)
(***************************************************************************)
\* merchants the coin is presented to (each runs acceptCoin once)
NumMerchants == 2
\* key patterns the one-time-pad key of an index is drawn from
NumKeyKinds == 3

(***************************************************************************)
(* JavaScript values and string primitives.                                *)
(***************************************************************************)
undefined == <<-1>>

\* characters the driver names in literals
Dash == 45
Comma == 44

\* falsy strings: undefined and "" (the conditional operator of lines 39-40)
Truthy(s) == s # undefined /\ s # <<>>

\* the positions of the separator in s
SepPositions(s, sep) == {i \in 1..Len(s) : s[i] = sep}

\* String.prototype.split(sep) for a one-character separator: the pieces between
\* consecutive separators, "a,,b" -> <<"a","","b">>, "" -> <<"">>
Split(s, sep) ==
  LET P == SepPositions(s, sep)
      \* the position of the k-th separator; 0 and Len(s) + 1 bracket the string
      pos(k) == IF k = 0 THEN 0
                ELSE IF k > Cardinality(P) THEN Len(s) + 1
                ELSE CHOOSE p \in P : Cardinality({q \in P : q < p}) = k - 1
  IN [k \in 1..(Cardinality(P) + 1) |-> SubSeq(s, pos(k - 1) + 1, pos(k) - 1)]

\* element i (0-based, as in the code) of a JavaScript array; undefined past the end
At(arr, i) == IF i + 1 \in 1..Len(arr) THEN arr[i + 1] ELSE undefined

RECURSIVE JoinFrom(_, _, _)
JoinFrom(strs, sep, i) ==
  IF i > Len(strs) THEN <<>>
  ELSE IF i = Len(strs) THEN strs[i]
  ELSE strs[i] \o <<sep>> \o JoinFrom(strs, sep, i + 1)

\* Array.prototype.join(sep) over an array of strings
Join(strs, sep) == JoinFrom(strs, sep, 1)

\* String.prototype.startsWith
StartsWith(s, p) == Len(s) >= Len(p) /\ SubSeq(s, 1, Len(p)) = p

\* String.prototype.substring(n)
Substring(s, n) == SubSeq(s, n + 1, Len(s))


RECURSIVE Digits(_)
\* decimal digits of a natural number, as a string
Digits(n) == IF n < 10 THEN <<48 + n>> ELSE Digits(n \div 10) \o <<48 + (n % 10)>>

\* Number::toString of the value m * 10^e, for an integer (e = 0) or a one-digit
\* mantissa with e < 0: 20 -> "20", 0.5 -> "0.5", 1e-7 -> "1e-7" (values below
\* 1e-6 are rendered in exponent notation)
NumberToString(a) ==
  IF a.e = 0 THEN Digits(a.m)
  ELSE IF a.e >= -6
       THEN <<48, 46>> \o [j \in 1..(-a.e - 1) |-> 48] \o Digits(a.m)
       ELSE Digits(a.m) \o <<101, 45>> \o Digits(-a.e)

(***************************************************************************)
(* Buffers: bytes, XOR, UTF-8 decoding, hashing.                           *)
(***************************************************************************)
RECURSIVE BitXor(_, _)
BitXor(a, b) ==
  IF a = 0 THEN b
  ELSE IF b = 0 THEN a
  ELSE ((a + b) % 2) + 2 * BitXor(a \div 2, b \div 2)

XorBytes(a, b) == [j \in 1..Len(a) |-> BitXor(a[j], b[j])]

\* a UTF-8 continuation byte at position i
Cont(b, i, lo, hi) == i <= Len(b) /\ b[i] >= lo /\ b[i] <= hi

\* a code point as UTF-16 code units
Utf16(cp) ==
  IF cp < 65536 THEN <<cp>>
  ELSE <<55296 + ((cp - 65536) \div 1024), 56320 + ((cp - 65536) % 1024)>>

RECURSIVE Utf8From(_, _)
\* Buffer.prototype.toString('utf8'): every maximal ill-formed subsequence
\* decodes to U+FFFD (65533)
Utf8From(b, i) ==
  IF i > Len(b) THEN <<>>
  ELSE LET c == b[i] IN
    IF c <= 127 THEN <<c>> \o Utf8From(b, i + 1)
    ELSE IF c >= 194 /\ c <= 223 THEN
      IF Cont(b, i + 1, 128, 191)
      THEN Utf16((c - 192) * 64 + (b[i + 1] - 128)) \o Utf8From(b, i + 2)
      ELSE <<65533>> \o Utf8From(b, i + 1)
    ELSE IF c >= 224 /\ c <= 239 THEN
      IF ~Cont(b, i + 1, IF c = 224 THEN 160 ELSE 128, IF c = 237 THEN 159 ELSE 191)
      THEN <<65533>> \o Utf8From(b, i + 1)
      ELSE IF ~Cont(b, i + 2, 128, 191)
      THEN <<65533>> \o Utf8From(b, i + 2)
      ELSE Utf16((c - 224) * 4096 + (b[i + 1] - 128) * 64 + (b[i + 2] - 128))
           \o Utf8From(b, i + 3)
    ELSE IF c >= 240 /\ c <= 244 THEN
      IF ~Cont(b, i + 1, IF c = 240 THEN 144 ELSE 128, IF c = 244 THEN 143 ELSE 191)
      THEN <<65533>> \o Utf8From(b, i + 1)
      ELSE IF ~Cont(b, i + 2, 128, 191)
      THEN <<65533>> \o Utf8From(b, i + 2)
      ELSE IF ~Cont(b, i + 3, 128, 191)
      THEN <<65533>> \o Utf8From(b, i + 3)
      ELSE Utf16((c - 240) * 262144 + (b[i + 1] - 128) * 4096
                 + (b[i + 2] - 128) * 64 + (b[i + 3] - 128))
           \o Utf8From(b, i + 4)
    ELSE <<65533>> \o Utf8From(b, i + 1)

BufferToString(b) == Utf8From(b, 1)

HexDigit(n) == IF n < 10 THEN 48 + n ELSE 87 + n

RECURSIVE HexFrom(_, _)
HexFrom(b, i) ==
  IF i > Len(b) THEN <<>>
  ELSE <<HexDigit(b[i] \div 16), HexDigit(b[i] % 16)>> \o HexFrom(b, i + 1)

\* utils.hash: a deterministic, collision-free digest string over [0-9a-f]
hash(b) == HexFrom(b, 1)

\* utils.decryptOTP({key, ciphertext, returnType: 'string'}): the XOR of two
\* buffers of equal length, decoded as UTF-8; an error when the lengths differ
decryptOTP(key, ciphertext) ==
  IF Len(key) # Len(ciphertext)
  THEN [ok |-> FALSE, value |-> <<>>]
  ELSE [ok |-> TRUE, value |-> BufferToString(XorBytes(key, ciphertext))]

(***************************************************************************)
(* The coin (coin.js, required at line 5).                                 *)
(***************************************************************************)
\* number of left/right share pairs of a coin
COIN_RIS_LENGTH == 3
\* "IDENT": the marker that begins the identity tag
IDENT_STR == <<73, 68, 69, 78, 84>>
\* "BANK": the tag that begins a coin's canonical string
BANK_STR == <<66, 65, 78, 75>>

Indices == 0..(COIN_RIS_LENGTH - 1)
Sides == {"left", "right"}

\* "IDENT:" + purchaser, as bytes
identityTag(owner) == IDENT_STR \o <<58>> \o owner

\* The random one-time-pad key of index i, drawn from NumKeyKinds patterns:
\*   1  printable bytes that differ from index to index
\*   2  all zero bytes
\*   3  bytes that are ill-formed UTF-8 on their own and after the XOR with the tag
\*   4+ the two-byte UTF-8 sequences of U+00E9, U+00EA, ...
KeyOf(kind, tag, i) ==
  [j \in 1..Len(tag) |->
     CASE kind = 1 -> 33 + ((7 * j + 13 * i) % 90)
       [] kind = 2 -> 0
       [] kind = 3 -> IF tag[j] >= 64 THEN 255 ELSE 192
       [] OTHER    -> IF j % 2 = 1 THEN 195 ELSE 165 + kind]

\* a buffer that differs from b in its first byte
Corrupt(b) == [j \in 1..Len(b) |-> IF j = 1 THEN BitXor(b[j], 1) ELSE b[j]]

\* the left share is the tag itself: no key is applied
LeftShare_NoKey(tag, key) == tag

\* the left share of an index: OTP-encrypt(identityTag, key)
LeftShare(tag, key) == XorBytes(tag, key)

\* the right share is the left share again
RightShare_SameAsLeft(left, tag) == left

\* the right share of an index: leftIdent[i] XOR identityTag
RightShare(left, tag) == XorBytes(left, tag)

\* The Coin constructor on the random keys it drew, key[i] for index i.  forge
\* describes how the spender departs from the honest construction before the coin
\* is blinded:
\*   forge.str   the canonical string ("honest", or a malformed one)
\*   forge.side, forge.pat   the state of each share object of one side
\*                           ("ok", "wrong": not the committed one, "missing")
\*   forge.drop  "left" when the coin object has no leftIdent property
CoinWithKeys(owner, amount, guid, key, forge) ==
  LET tag == identityTag(owner)
      left == [i \in 1..COIN_RIS_LENGTH |-> LeftShare(tag, key[i])]
      right == [i \in 1..COIN_RIS_LENGTH |-> RightShare(left[i], tag)]
      lh == [i \in 1..COIN_RIS_LENGTH |-> hash(left[i])]
      rh == [i \in 1..COIN_RIS_LENGTH |-> hash(right[i])]
      held(side, shares) ==
        [i \in 1..COIN_RIS_LENGTH |->
           IF forge.side # side \/ forge.pat[i] = "ok" THEN shares[i]
           ELSE IF forge.pat[i] = "wrong" THEN Corrupt(shares[i])
           ELSE undefined]
      head == BANK_STR \o <<Dash>> \o NumberToString(amount) \o <<Dash>> \o guid
      str ==
        CASE forge.str = "honest" ->
               head \o <<Dash>> \o Join(lh, Comma) \o <<Dash>> \o Join(rh, Comma)
          [] forge.str = "badTag" ->
               <<88>> \o head \o <<Dash>> \o Join(lh, Comma) \o <<Dash>> \o Join(rh, Comma)
          [] forge.str = "shortRight" ->
               head \o <<Dash>> \o Join(lh, Comma)
                    \o <<Dash>> \o Join(SubSeq(rh, 1, COIN_RIS_LENGTH - 1), Comma)
          [] forge.str = "longLeft" ->
               head \o <<Dash>> \o Join(Append(lh, lh[1]), Comma)
                    \o <<Dash>> \o Join(rh, Comma)
          [] forge.str = "noRight" ->
               head \o <<Dash>> \o Join(lh, Comma)
          [] OTHER ->  \* "emptyLeft"
               head \o <<Dash, Dash>> \o Join(rh, Comma)
  IN [owner |-> owner,
      amount |-> amount,
      guid |-> guid,
      leftIdent |-> IF forge.drop = "left" THEN undefined ELSE held("left", left),
      rightIdent |-> held("right", right),
      coinString |-> str,
      blinded |-> [msg |-> str],
      signature |-> [state |-> "unset", msg |-> <<>>],
      unblindCalled |-> FALSE]

\* The Coin constructor with the key of index i drawn as the pattern keys[i]
Coin(owner, amount, guid, keys, forge) ==
  CoinWithKeys(owner, amount, guid,
               [i \in 1..COIN_RIS_LENGTH |-> KeyOf(keys[i], identityTag(owner), i)],
               forge)

\* Coin.toString
toString(coin) == coin.coinString

\* Coin.getRis(isLeft, i)
getRis(coin, isLeft, i) ==
  IF isLeft THEN At(coin.leftIdent, i) ELSE At(coin.rightIdent, i)

\* Coin.unblind(): removes the blinding factor from the signature in place; it may
\* be called once, after a signature was set, and any other call is a misuse error
\* that changes nothing
unblind(coin) ==
  IF coin.signature.state = "unset" \/ coin.unblindCalled
  THEN [coin |-> coin, misuse |-> TRUE]
  ELSE [coin |-> [coin EXCEPT !.signature.state = "unblinded", !.unblindCalled = TRUE],
        misuse |-> FALSE]

(***************************************************************************)
(* The blind-signature library, by its contract.                           *)
(***************************************************************************)
\* blindSignatures.sign: the bank's signature on the blinded message
signCoin(blindedCoinHash) == [state |-> "blind", msg |-> blindedCoinHash.msg]

\* blindSignatures.verify: true exactly for the unblinded signature of the message
verify(unblinded, message) ==
  unblinded.state = "unblinded" /\ unblinded.msg = message

(***************************************************************************)
(* Merchant acceptance (driver.js, parseCoin and acceptCoin).              *)
(*                                                                         *)
(* A call's outcome is a record: status "accepted" with the returned ris,  *)
(* or status "threw" with the error raised and no return value.  side is   *)
(* the side drawn ("none" when the call ended before the draw) and         *)
(* revealed counts the getRis requests made.  An error carries exactly the *)
(* values its message interpolates.                                        *)
(***************************************************************************)
Threw(err, side, revealed) ==
  [status |-> "threw", ris |-> undefined, side |-> side, revealed |-> revealed,
   error |-> err]

Accepted(ris, side) ==
  [status |-> "accepted", ris |-> ris, side |-> side, revealed |-> Len(ris),
   error |-> [kind |-> "none"]]

SideName(selectLeft) == IF selectLeft THEN "left" ELSE "right"

\* parseCoin: the first five '-'-separated fields by position; the hash lists of
\* the fourth and fifth, or [] for a field that is missing or empty
parseCoin(s) ==
  LET fields == Split(s, Dash)
      cnst == At(fields, 0)
      leftHashes == At(fields, 3)
      rightHashes == At(fields, 4)
  IN IF cnst # BANK_STR
     THEN [ok |-> FALSE, lh |-> <<>>, rh |-> <<>>,
           error |-> [kind |-> "MalformedCoin", reason |-> "tag", received |-> cnst]]
     ELSE [ok |-> TRUE,
           lh |-> IF Truthy(leftHashes) THEN Split(leftHashes, Comma) ELSE <<>>,
           rh |-> IF Truthy(rightHashes) THEN Split(rightHashes, Comma) ELSE <<>>,
           error |-> [kind |-> "none"]]

\* the error of line 96: the index, the expected hash and the hash of the preimage
RisHashError(i, selectLeft, selectedHash, preimage) ==
  [kind |-> "RisHashMismatch", index |-> i, expected |-> selectedHash,
   got |-> hash(preimage)]

\* the error of line 91: the index and the side
MissingPreimageError(i, selectLeft) ==
  [kind |-> "MissingShare", index |-> i, side |-> SideName(selectLeft)]

\* the comparison inverted
HashMatches_Inverted(preimage, selectedHash) == hash(preimage) # selectedHash

\* the check of line 95
HashMatches(preimage, selectedHash) == hash(preimage) = selectedHash

RECURSIVE GatherRis(_, _, _, _, _, _)
\* the loop of lines 84-100, from index i with the shares gathered so far
GatherRis(coin, selectLeft, leftHashes, rightHashes, i, ris) ==
  IF i >= COIN_RIS_LENGTH THEN Accepted(ris, SideName(selectLeft))
  ELSE LET selectedHash == IF selectLeft THEN At(leftHashes, i) ELSE At(rightHashes, i)
           preimage == getRis(coin, selectLeft, i)
       IN IF preimage = undefined
          THEN Threw(MissingPreimageError(i, selectLeft), SideName(selectLeft), i + 1)
          ELSE IF ~HashMatches(preimage, selectedHash)
          THEN Threw(RisHashError(i, selectLeft, selectedHash, preimage),
                     SideName(selectLeft), i + 1)
          ELSE GatherRis(coin, selectLeft, leftHashes, rightHashes, i + 1,
                         Append(ris, preimage))

\* the signature verified against the string that was blinded, not the current one
SignatureValid_Stale(coin) == verify(coin.signature, coin.blinded.msg)

\* the check of lines 61-63
SignatureValid(coin) == verify(coin.signature, toString(coin))

\* only the left list is counted
HashCountsOk_LeftOnly(leftHashes, rightHashes) == Len(leftHashes) = COIN_RIS_LENGTH

\* the check of lines 69-72
HashCountsOk(leftHashes, rightHashes) ==
  Len(leftHashes) = COIN_RIS_LENGTH /\ Len(rightHashes) = COIN_RIS_LENGTH

\* lines 65-105: what acceptCoin does once the signature has verified
AcceptVerified(coin, selectLeft) ==
  LET parsed == parseCoin(toString(coin)) IN
  IF ~parsed.ok
  THEN Threw(parsed.error, "none", 0)
  ELSE IF ~HashCountsOk(parsed.lh, parsed.rh)
  THEN Threw([kind |-> "MalformedCoin", reason |-> "hashCount",
              left |-> Len(parsed.lh), right |-> Len(parsed.rh)], "none", 0)
  ELSE IF coin.leftIdent = undefined \/ coin.rightIdent = undefined
  THEN Threw([kind |-> "MissingIdent"], "none", 0)
  ELSE GatherRis(coin, selectLeft, parsed.lh, parsed.rh, 0, <<>>)

\* the failed verification is not thrown
acceptCoin_NoThrow(coin, selectLeft) == AcceptVerified(coin, selectLeft)

\* acceptCoin(coin), with selectLeft the value of Math.random() < 0.5
acceptCoin(coin, selectLeft) ==
  IF ~SignatureValid(coin)
  THEN Threw([kind |-> "InvalidSignature"], "none", 0)
  ELSE AcceptVerified(coin, selectLeft)

(***************************************************************************)
(* Double-spend adjudication (driver.js, determineCheater).                *)
(*                                                                         *)
(* A call's outcome is a record: what the call returned (undefined: every  *)
(* return statement is bare), the line it printed (a tag for the message,  *)
(* the guid and, for a double spend, the cheater's identity), and whether  *)
(* it threw instead.                                                       *)
(***************************************************************************)
Printed(tag, guid, identity) ==
  [threw |-> FALSE, returned |-> undefined,
   printed |-> [tag |-> tag, guid |-> guid, identity |-> identity]]

Raised(guid) ==
  [threw |-> TRUE, returned |-> undefined,
   printed |-> [tag |-> "none", guid |-> guid, identity |-> <<>>]]

\* ris.join(','): each buffer is converted by toString, a missing element by ""
RisJoin(ris) ==
  Join([k \in 1..Len(ris) |->
          IF ris[k] = undefined THEN <<>> ELSE BufferToString(ris[k])], Comma)

\* the two joins made with different separators
RisIdentical_OtherSeparator(ris1, ris2) ==
  RisJoin(ris1) =
    Join([k \in 1..Len(ris2) |->
            IF ris2[k] = undefined THEN <<>> ELSE BufferToString(ris2[k])], Dash)

\* the joined strings compared with <= in place of ===
RisIdentical_Ordered(ris1, ris2) ==
  LET a == RisJoin(ris1)
      b == RisJoin(ris2)
  IN \/ a = b
     \/ Len(a) < Len(b) /\ a = SubSeq(b, 1, Len(a))
     \/ \E k \in 1..Len(a) :
          /\ k <= Len(b)
          /\ a[k] < b[k]
          /\ \A j \in 1..(k - 1) : a[j] = b[j]

\* the test of line 118
RisIdentical(ris1, ris2) == RisJoin(ris1) = RisJoin(ris2)

\* the test of line 133
HasIdentPrefix(xorResult) == StartsWith(xorResult, IDENT_STR)

\* the identity cut one character early, so that it keeps the colon
CheaterId_KeepsColon(xorResult) == Substring(xorResult, Len(IDENT_STR))

\* line 134
CheaterId(xorResult) == Substring(xorResult, Len(IDENT_STR) + 1)

RECURSIVE ScanRis_OneMore(_, _, _, _)
\* the loop runs to i <= COIN_RIS_LENGTH
ScanRis_OneMore(guid, ris1, ris2, i) ==
  IF i > COIN_RIS_LENGTH THEN Printed("Inconclusive", guid, <<>>)
  ELSE IF At(ris1, i) = undefined \/ At(ris2, i) = undefined THEN Raised(guid)
  ELSE LET xorResult == decryptOTP(At(ris1, i), At(ris2, i)) IN
    IF ~xorResult.ok THEN Raised(guid)
    ELSE IF HasIdentPrefix(xorResult.value)
    THEN Printed("SpenderCheating", guid, CheaterId(xorResult.value))
    ELSE ScanRis_OneMore(guid, ris1, ris2, i + 1)

RECURSIVE ScanRis(_, _, _, _)
\* the loop of lines 124-138 from index i, and line 140.  Buffer.from(undefined)
\* and decryptOTP on buffers of different lengths throw.
ScanRis(guid, ris1, ris2, i) ==
  IF i >= COIN_RIS_LENGTH THEN Printed("Inconclusive", guid, <<>>)
  ELSE IF At(ris1, i) = undefined \/ At(ris2, i) = undefined THEN Raised(guid)
  ELSE LET xorResult == decryptOTP(At(ris1, i), At(ris2, i)) IN
    IF ~xorResult.ok THEN Raised(guid)
    ELSE IF HasIdentPrefix(xorResult.value)
    THEN Printed("SpenderCheating", guid, CheaterId(xorResult.value))
    ELSE ScanRis(guid, ris1, ris2, i + 1)

(***************************************************************************)
(* The state of the driver.                                                *)
(***************************************************************************)
VARIABLES
  built,    \* history: the constructor's arguments and the spender's departure
  coin,     \* the Coin object
  acc,      \* per merchant, the outcome of its acceptCoin call
  presented,\* history: per merchant, the signature and string of the coin it was shown
  verdict,  \* the last determineCheater call: its arguments and outcome
  misuse    \* whether a call of unblind has raised a misuse error

vars == <<built, coin, acc, presented, verdict, misuse>>

\* the bank keeps the guids it has adjudicated: a guid seen in the call before is
\* reported as merchant fraud
determineCheater_RemembersGuid(guid, ris1, ris2) ==
  IF verdict.out.printed.tag # "none" /\ verdict.guid = guid
  THEN Printed("MerchantCheating", guid, <<>>)
  ELSE IF RisIdentical(ris1, ris2)
  THEN Printed("MerchantCheating", guid, <<>>)
  ELSE ScanRis(guid, ris1, ris2, 0)

\* lines 116-141: the outcome is computed from the arguments alone; the function
\* reads and assigns no variable of the module
determineCheater(guid, ris1, ris2) ==
  IF RisIdentical(ris1, ris2)
  THEN Printed("MerchantCheating", guid, <<>>)
  ELSE ScanRis(guid, ris1, ris2, 0)

(***************************************************************************)
(* The state machine.                                                      *)
(***************************************************************************)
Merchants == 1..NumMerchants

\* "alice", "bob"
Owners == {<<97, 108, 105, 99, 101>>, <<98, 111, 98>>}
\* 20, 0.5, 1e-7
Amounts == {[m |-> 20, e |-> 0], [m |-> 5, e |-> -1], [m |-> 1, e |-> -7]}
\* utils.makeGUID(): a hexadecimal string
Guid == <<55, 102>>

AllOk == [i \in 1..COIN_RIS_LENGTH |-> "ok"]
HonestForge == [str |-> "honest", side |-> "left", pat |-> AllOk, drop |-> "none"]

WrongFirst == [i \in 1..COIN_RIS_LENGTH |-> IF i = 1 THEN "wrong" ELSE "ok"]

\* every forgery of the shares of one side under the honest string, and every
\* malformed string with honest shares, a first share that is wrong, or no leftIdent
Forges ==
  {f \in [str : {"honest", "badTag", "shortRight", "longLeft", "noRight", "emptyLeft"},
          side : Sides,
          pat : [1..COIN_RIS_LENGTH -> {"ok", "wrong", "missing"}],
          drop : {"none", "left"}] :
     /\ f.pat = AllOk => f.side = "left"
     /\ f.drop = "left" => f.pat = AllOk
     /\ f.str # "honest" => f.pat \in {AllOk, WrongFirst}}

Alice == <<97, 108, 105, 99, 101>>
Twenty == [m |-> 20, e |-> 0]

\* The coins of the model: the honest coins of every owner under every choice of
\* keys, alice's honest coins of every amount, and every forgery of alice's coin
Constructions ==
  {[owner |-> o, amount |-> Twenty, keys |-> k, forge |-> HonestForge] :
     o \in Owners, k \in [1..COIN_RIS_LENGTH -> 1..NumKeyKinds]}
  \cup
  {[owner |-> Alice, amount |-> a, keys |-> [i \in 1..COIN_RIS_LENGTH |-> 1],
    forge |-> HonestForge] : a \in Amounts}
  \cup
  {[owner |-> Alice, amount |-> Twenty,
    keys |-> [i \in 1..COIN_RIS_LENGTH |-> 1], forge |-> f] : f \in Forges}

Idle ==
  [status |-> "idle", ris |-> undefined, side |-> "none", revealed |-> 0,
   error |-> [kind |-> "none"]]

\* the outcome of a call that has not run
NoOutcome == Printed("none", <<>>, <<>>)

NotPresented == [signature |-> [state |-> "none", msg |-> <<>>], coinString |-> <<>>]

NoVerdict ==
  [from |-> <<>>, guid |-> <<>>, ris1 |-> <<>>, ris2 |-> <<>>, out |-> NoOutcome]

Init ==
  /\ built \in Constructions
  /\ coin = Coin(built.owner, built.amount, Guid, built.keys, built.forge)
  /\ acc = [m \in Merchants |-> Idle]
  /\ presented = [m \in Merchants |-> NotPresented]
  /\ verdict = NoVerdict
  /\ misuse = FALSE

\* line 148: coin.signature = signCoin(coin.blinded), a plain assignment
BankSign ==
  /\ coin' = [coin EXCEPT !.signature = signCoin(coin.blinded)]
  /\ UNCHANGED <<built, acc, presented, verdict, misuse>>

\* line 150: the spender calls coin.unblind()
Unblind ==
  LET r == unblind(coin) IN
  /\ coin' = r.coin
  /\ misuse' = (misuse \/ r.misuse)
  /\ UNCHANGED <<built, acc, presented, verdict>>

\* the call takes the left shares out of the coin
CoinAfterAccept_ConsumesShares(c, selectLeft) == [c EXCEPT !.leftIdent = undefined]

\* the coin object after an acceptCoin call: lines 52-106 assign to no property of
\* the coin and call only verify, toString and getRis on it
CoinAfterAccept(c, selectLeft) == c

\* lines 153, 156: a merchant runs acceptCoin on the coin; the merchants are
\* numbered in the order of their calls
Accept(m) ==
  /\ acc[m].status = "idle"
  /\ \A k \in 1..(m - 1) : acc[k].status # "idle"
  /\ \E selectLeft \in BOOLEAN :
       /\ acc' = [acc EXCEPT ![m] = acceptCoin(coin, selectLeft)]
       /\ coin' = CoinAfterAccept(coin, selectLeft)
  /\ presented' = [presented EXCEPT
                     ![m] = [signature |-> coin.signature, coinString |-> toString(coin)]]
  /\ UNCHANGED <<built, verdict, misuse>>

\* line 160: the bank adjudicates the deposits of two merchants
Adjudicate(m1, m2) ==
  /\ m1 # m2
  /\ acc[m1].status = "accepted" /\ acc[m2].status = "accepted"
  /\ verdict' = [from |-> <<m1, m2>>, guid |-> coin.guid,
                 ris1 |-> acc[m1].ris, ris2 |-> acc[m2].ris,
                 out |-> determineCheater(coin.guid, acc[m1].ris, acc[m2].ris)]
  /\ UNCHANGED <<built, coin, acc, presented, misuse>>

\* line 165: the bank adjudicates one merchant's deposit against itself
AdjudicateReplay(m) ==
  /\ acc[m].status = "accepted"
  /\ verdict' = [from |-> <<m, m>>, guid |-> coin.guid,
                 ris1 |-> acc[m].ris, ris2 |-> acc[m].ris,
                 out |-> determineCheater(coin.guid, acc[m].ris, acc[m].ris)]
  /\ UNCHANGED <<built, coin, acc, presented, misuse>>

Next ==
  \/ BankSign
  \/ Unblind
  \/ \E m \in Merchants : Accept(m)
  \/ \E m1, m2 \in Merchants : Adjudicate(m1, m2)
  \/ \E m \in Merchants : AdjudicateReplay(m)

Spec == Init /\ [][Next]_vars

(***************************************************************************)
(* Tampering: the coin's canonical string is changed in one byte after it  *)
(* was blinded.                                                            *)
(***************************************************************************)
\* '-', ',' and 'X'
TamperChars == {Dash, Comma, 88}

\* alice's honest coins, signed by the bank and unblinded
InitTamper ==
  /\ built \in {c \in Constructions :
                  /\ c.forge = HonestForge
                  /\ c.owner = Alice
                  /\ \A i \in 1..COIN_RIS_LENGTH : c.keys[i] = 1}
  /\ LET fresh == Coin(built.owner, built.amount, Guid, built.keys, built.forge)
         signed == [fresh EXCEPT !.signature = signCoin(fresh.blinded)]
     IN coin = unblind(signed).coin
  /\ acc = [m \in Merchants |-> Idle]
  /\ presented = [m \in Merchants |-> NotPresented]
  /\ verdict = NoVerdict
  /\ misuse = FALSE

Tamper(pos, ch) ==
  /\ coin.coinString = coin.blinded.msg
  /\ coin.coinString[pos] # ch
  /\ coin' = [coin EXCEPT !.coinString[pos] = ch]
  /\ UNCHANGED <<built, acc, presented, verdict, misuse>>

NextTamper ==
  \/ \E pos \in 1..Len(coin.coinString), ch \in TamperChars : Tamper(pos, ch)
  \/ \E m \in Merchants : Accept(m)

SpecTamper == InitTamper /\ [][NextTamper]_vars

(***************************************************************************)
(* Adjudication of arbitrary deposits: determineCheater as a function of   *)
(* its arguments.                                                          *)
(***************************************************************************)
\* shares a merchant may submit: a key, the key XOR "IDENT:a", ",", "", two
\* bytes that are ill-formed UTF-8, and the key XOR "IDENT:b"
AllShares ==
  LET tagA == identityTag(<<97>>)
      tagB == identityTag(<<98>>)
  IN << KeyOf(1, tagA, 1),
        XorBytes(KeyOf(1, tagA, 1), tagA),
        <<Comma>>,
        <<>>,
        <<255>>,
        <<192>>,
        XorBytes(KeyOf(1, tagA, 1), tagB) >>

\* how many of AllShares the deposits are built from
NumShares == 5

ShareUniverse == {AllShares[k] : k \in 1..NumShares}

\* RIS sequences of length COIN_RIS_LENGTH, and the shorter ones of length 0 and 1
RisUniverse ==
  [1..COIN_RIS_LENGTH -> ShareUniverse] \cup [1..1 -> ShareUniverse] \cup {<<>>}

Guids == {Guid, <<97, 49>>}

\* the arguments of the call are drawn first; the call has not run
InitAdj ==
  /\ built = [owner |-> <<97>>, amount |-> [m |-> 20, e |-> 0],
              keys |-> [i \in 1..COIN_RIS_LENGTH |-> 1], forge |-> HonestForge]
  /\ coin = Coin(built.owner, built.amount, Guid, built.keys, built.forge)
  /\ acc = [m \in Merchants |-> Idle]
  /\ presented = [m \in Merchants |-> NotPresented]
  /\ \E guid \in Guids, ris1 \in RisUniverse, ris2 \in RisUniverse :
       verdict = [from |-> <<0, 0>>, guid |-> guid, ris1 |-> ris1, ris2 |-> ris2,
                  out |-> NoOutcome]
  /\ misuse = FALSE

\* determineCheater(guid, ris1, ris2) on deposits of any content
Judge ==
  /\ verdict' = [verdict EXCEPT
                   !.out = determineCheater(verdict.guid, verdict.ris1, verdict.ris2)]
  /\ UNCHANGED <<built, coin, acc, presented, misuse>>

NextAdj == Judge

SpecAdj == InitAdj /\ [][NextAdj]_vars

(***************************************************************************)
(* One acceptance of coins that differ in their owner and in their keys.   *)
(***************************************************************************)
\* "a", "b", "c": identities of equal length
LeakOwners == {<<97>>, <<98>>, <<99>>}

\* the random keys vary in the low KeyBits bits of their last byte
KeyBits == 2

\* the keys of one index: as long as the identity tag of a LeakOwners identity,
\* the last byte taking every value of a block of 2^KeyBits values
KeySpace == {<<17, 34, 51, 68, 85, 102, 96 + v>> : v \in 0..(2^KeyBits - 1)}

\* a coin after the bank signed it and the spender unblinded it
Issued(fresh) == unblind([fresh EXCEPT !.signature = signCoin(fresh.blinded)]).coin

\* the coins of every LeakOwners identity under every choice of keys, issued
InitLeak ==
  /\ built \in [owner : LeakOwners, amount : {Twenty},
                keys : [1..COIN_RIS_LENGTH -> KeySpace], forge : {HonestForge}]
  /\ coin = Issued(CoinWithKeys(built.owner, built.amount, Guid, built.keys, built.forge))
  /\ acc = [m \in Merchants |-> Idle]
  /\ presented = [m \in Merchants |-> NotPresented]
  /\ verdict = NoVerdict
  /\ misuse = FALSE

NextLeak == \E m \in Merchants : Accept(m)

SpecLeak == InitLeak /\ [][NextLeak]_vars

(***************************************************************************)
(* Two acceptCoin calls on one coin, interleaved statement by statement.   *)
(* acc[m] holds the locals of the call of merchant m while it runs: status *)
(* "running", side the value of selectLeft ("none" before line 80), ris    *)
(* the shares pushed so far and revealed the loop index i.                 *)
(***************************************************************************)
Running(ris, side) ==
  [status |-> "running", ris |-> ris, side |-> side, revealed |-> Len(ris),
   error |-> [kind |-> "none"]]

\* selectLeft is one variable shared by the calls: a call reads the draw of
\* another call that has drawn
CallSide_Shared(m) ==
  IF \E k \in Merchants : k # m /\ acc[k].side # "none"
  THEN acc[CHOOSE k \in Merchants : k # m /\ acc[k].side # "none"].side
  ELSE acc[m].side

\* line 80: selectLeft is a const local to the call
CallSide(m) == acc[m].side

\* alice's honest coins under every choice of keys and her coins with forged
\* shares, signed by the bank and unblinded
InitConc ==
  /\ built \in {c \in Constructions :
                  c.owner = Alice /\ c.amount = Twenty /\ c.forge.str = "honest"}
  /\ coin = Issued(Coin(built.owner, built.amount, Guid, built.keys, built.forge))
  /\ acc = [m \in Merchants |-> Idle]
  /\ presented = [m \in Merchants |-> NotPresented]
  /\ verdict = NoVerdict
  /\ misuse = FALSE

\* lines 54-77: the checks that precede the draw; a call that fails one of them
\* ends as acceptCoin ends, whatever it would have drawn
StepChecks(m) ==
  /\ acc[m].status = "idle"
  /\ LET whole == acceptCoin(coin, TRUE) IN
     acc' = [acc EXCEPT ![m] = IF whole.side = "none" THEN whole
                               ELSE Running(<<>>, "none")]
  /\ presented' = [presented EXCEPT
                     ![m] = [signature |-> coin.signature, coinString |-> toString(coin)]]
  /\ UNCHANGED <<built, coin, verdict, misuse>>

\* line 80: const selectLeft = Math.random() < 0.5
StepDraw(m) ==
  /\ acc[m].status = "running" /\ acc[m].side = "none"
  /\ \E selectLeft \in BOOLEAN :
       acc' = [acc EXCEPT ![m] = Running(<<>>, SideName(selectLeft))]
  /\ UNCHANGED <<built, coin, presented, verdict, misuse>>

\* lines 84-100: one iteration of the loop, at i = acc[m].revealed, on the hash
\* lists parsed at line 66 from the string the call read
StepShare(m) ==
  /\ acc[m].status = "running" /\ acc[m].side # "none"
  /\ acc[m].revealed < COIN_RIS_LENGTH
  /\ LET i == acc[m].revealed
         selectLeft == CallSide(m) = "left"
         parsed == parseCoin(presented[m].coinString)
         selectedHash == IF selectLeft THEN At(parsed.lh, i) ELSE At(parsed.rh, i)
         preimage == getRis(coin, selectLeft, i)
     IN acc' = [acc EXCEPT ![m] =
                  IF preimage = undefined
                  THEN Threw(MissingPreimageError(i, selectLeft), acc[m].side, i + 1)
                  ELSE IF ~HashMatches(preimage, selectedHash)
                  THEN Threw(RisHashError(i, selectLeft, selectedHash, preimage),
                             acc[m].side, i + 1)
                  ELSE Running(Append(acc[m].ris, preimage), acc[m].side)]
  /\ UNCHANGED <<built, coin, presented, verdict, misuse>>

\* line 105: return ris
StepReturn(m) ==
  /\ acc[m].status = "running" /\ acc[m].revealed = COIN_RIS_LENGTH
  /\ acc' = [acc EXCEPT ![m] = Accepted(acc[m].ris, acc[m].side)]
  /\ UNCHANGED <<built, coin, presented, verdict, misuse>>

NextConc ==
  \E m \in Merchants :
    \/ StepChecks(m)
    \/ StepDraw(m)
    \/ StepShare(m)
    \/ StepReturn(m)

SpecConc == InitConc /\ [][NextConc]_vars

(***************************************************************************)
(* Properties.                                                             *)
(***************************************************************************)
\* the coin was constructed honestly
Honest == built.forge = HonestForge

\* the verdict is on the deposits of two different merchants
TwoDeposits ==
  /\ Len(verdict.from) = 2
  /\ verdict.from[1] \in Merchants /\ verdict.from[2] \in Merchants
  /\ verdict.from[1] # verdict.from[2]

SameDraws == acc[verdict.from[1]].side = acc[verdict.from[2]].side

C2_IdenticalRisIsMerchant ==
  (verdict.out # NoOutcome /\ verdict.ris1 = verdict.ris2) =>
    verdict.out = Printed("MerchantCheating", verdict.guid, <<>>)

C2_Witness ==
  /\ verdict.out = Printed("MerchantCheating", verdict.guid, <<>>)
  /\ verdict.ris1 = verdict.ris2
  /\ Len(verdict.ris1) = COIN_RIS_LENGTH
  /\ verdict.ris1[1] # verdict.ris1[2]

\* merchant m has run acceptCoin
Ran(m) == acc[m].status # "idle"

\* the signature of the coin shown to merchant m verified against its string
ShownValid(m) == verify(presented[m].signature, presented[m].coinString)

\* the shares the coin holds for a side
Held(side) == IF side = "left" THEN coin.leftIdent ELSE coin.rightIdent

\* the hash list of a side in a canonical string: the fourth ("left") or fifth
\* ("right") '-'-separated field cut at ',', nothing for a missing or empty field
HashList(str, side) ==
  LET fields == Split(str, Dash)
      k == IF side = "left" THEN 4 ELSE 5
  IN IF Len(fields) < k \/ fields[k] = <<>> THEN <<>> ELSE Split(fields[k], Comma)

\* C3 as stated: one acceptCoin call on an honestly constructed coin that was signed
\* and unblinded once succeeds and returns COIN_RIS_LENGTH shares, the i-th of
\* which hashes to the i-th commitment of the drawn side.
C3_HonestCoinAccepted ==
  \A m \in Merchants :
    (Honest /\ Ran(m) /\ presented[m].signature.state = "unblinded") =>
      /\ acc[m].status = "accepted"
      /\ Len(acc[m].ris) = COIN_RIS_LENGTH
      /\ \A i \in 1..COIN_RIS_LENGTH :
           hash(acc[m].ris[i]) = hash(Held(acc[m].side)[i])

\* a state in which an honest, signed and unblinded coin was accepted
C3_Witness ==
  \E m \in Merchants :
    /\ Honest /\ presented[m].signature.state = "unblinded"
    /\ acc[m].status = "accepted" /\ acc[m].side = "right"
    /\ acc[m].ris = coin.rightIdent

\* C4: when the coin's signature does not verify against its current canonical
\* string, acceptCoin fails with InvalidSignature before it parses the string,
\* draws a side or requests a share, and returns no RIS.
C4_InvalidSignatureFirst ==
  \A m \in Merchants :
    (Ran(m) /\ ~ShownValid(m)) =>
      acc[m] = Threw([kind |-> "InvalidSignature"], "none", 0)

\* an issued coin whose bank tag was hit by the change was refused for its signature
C4_Witness ==
  \E m \in Merchants :
    /\ presented[m].signature.state = "unblinded"
    /\ presented[m].coinString # coin.blinded.msg
    /\ Split(presented[m].coinString, Dash)[1] # BANK_STR
    /\ acc[m].status = "threw" /\ acc[m].error.kind = "InvalidSignature"

\* the share held at index i (0-based) of a side is there but is not the one committed
\* to in the shown string
BadShare(m, side, i) ==
  /\ Held(side)[i + 1] # undefined
  /\ hash(Held(side)[i + 1]) # HashList(presented[m].coinString, side)[i + 1]

\* acceptCoin reaches index i of the side: every share below it is there
Reached(side, i) == \A j \in 1..i : Held(side)[j] # undefined

\* the coin shown to m passes the signature, tag, hash-count and leftIdent checks
PassesChecks(m) ==
  /\ ShownValid(m)
  /\ Split(presented[m].coinString, Dash)[1] = BANK_STR
  /\ Len(HashList(presented[m].coinString, "left")) = COIN_RIS_LENGTH
  /\ Len(HashList(presented[m].coinString, "right")) = COIN_RIS_LENGTH
  /\ coin.leftIdent # undefined /\ coin.rightIdent # undefined

\* C5: for a coin with a valid signature, if the share revealed at some index i for
\* the drawn side does not hash to the commitment at index i of that side,
\* acceptCoin fails with RisHashMismatch and returns no RIS.
C5_BadShareRefused ==
  \A m \in Merchants :
    (Ran(m) /\ PassesChecks(m)
       /\ \E i \in Indices : Reached(acc[m].side, i) /\ BadShare(m, acc[m].side, i)) =>
      /\ acc[m].status = "threw"
      /\ acc[m].error.kind = "RisHashMismatch"
      /\ acc[m].ris = undefined

\* the share at index 2 is wrong, the two below it were verified, and nothing is returned
C5_Witness ==
  \E m \in Merchants :
    /\ Ran(m) /\ PassesChecks(m)
    /\ BadShare(m, acc[m].side, 2)
    /\ ~BadShare(m, acc[m].side, 0) /\ ~BadShare(m, acc[m].side, 1)
    /\ acc[m].error.kind = "RisHashMismatch" /\ acc[m].revealed = 3
    /\ acc[m].ris = undefined

\* the lowest index at which the share of a side fails its commitment
FirstBad(m, side) ==
  CHOOSE i \in Indices :
    /\ BadShare(m, side, i)
    /\ \A j \in Indices : j < i => ~BadShare(m, side, j)

\* C6 as stated: every RisHashMismatch rejection carries the exact index and the
\* exact side of the share that failed its commitment check.
C6_MismatchNamesIndexAndSide ==
  \A m \in Merchants :
    acc[m].error.kind = "RisHashMismatch" =>
      /\ "index" \in DOMAIN acc[m].error
      /\ acc[m].error.index = FirstBad(m, acc[m].side)
      /\ "side" \in DOMAIN acc[m].error
      /\ acc[m].error.side = acc[m].side

\* a rejection for a wrong share at index 1 of the right side
C6_Witness ==
  \E m \in Merchants :
    /\ acc[m].error.kind = "RisHashMismatch"
    /\ acc[m].side = "right"
    /\ acc[m].error.index = 1

\* the canonical string is malformed: its leading field is not BANK_STR, or one of
\* its hash lists does not have COIN_RIS_LENGTH entries
Malformed(str) ==
  \/ Split(str, Dash)[1] # BANK_STR
  \/ Len(HashList(str, "left")) # COIN_RIS_LENGTH
  \/ Len(HashList(str, "right")) # COIN_RIS_LENGTH

\* C7: for a coin whose signature verifies, acceptCoin refuses the coin as malformed,
\* without drawing a side or requesting a share, whenever the leading field of its
\* canonical string is not BANK_STR or a parsed hash list does not have
\* COIN_RIS_LENGTH entries (a missing or empty list included).
C7_MalformedRefused ==
  \A m \in Merchants :
    (Ran(m) /\ ShownValid(m) /\ Malformed(presented[m].coinString)) =>
      /\ acc[m].status = "threw"
      /\ acc[m].error.kind = "MalformedCoin"
      /\ acc[m].side = "none" /\ acc[m].revealed = 0
      /\ acc[m].ris = undefined

\* a signed and unblinded coin whose right list is one hash short was refused
C7_Witness ==
  \E m \in Merchants :
    /\ ShownValid(m)
    /\ Split(presented[m].coinString, Dash)[1] = BANK_STR
    /\ Len(HashList(presented[m].coinString, "left")) = COIN_RIS_LENGTH
    /\ Len(HashList(presented[m].coinString, "right")) = COIN_RIS_LENGTH - 1
    /\ acc[m].error.kind = "MalformedCoin"

\* C8: no acceptCoin call succeeds on a coin before the bank's signature was set on
\* it and unblind() has completed: in every order of the calls, an acceptance of a
\* coin whose signature is unset or still blinded is refused and returns no RIS.
C8_NoAcceptanceBeforeIssuance ==
  \A m \in Merchants :
    (Ran(m) /\ presented[m].signature.state # "unblinded") =>
      acc[m].status = "threw" /\ acc[m].ris = undefined

\* one merchant was refused the coin before it was signed, the next one after it
\* was signed and before it was unblinded
C8_Witness ==
  /\ presented[1].signature.state = "unset" /\ acc[1].status = "threw"
  /\ presented[2].signature.state = "blind" /\ acc[2].status = "threw"
  /\ ~coin.unblindCalled

\* C9 as stated: setting the signature a second time, or calling unblind() a second
\* time, is reported as a misuse error and leaves the coin's signature unchanged.
C9_SecondCallIsMisuse ==
  [][/\ (BankSign /\ coin.signature.state # "unset") =>
          (misuse' /\ coin'.signature = coin.signature)
     /\ (Unblind /\ coin.unblindCalled) =>
          (misuse' /\ coin'.signature = coin.signature)]_vars

\* the signature was assigned again after the coin was unblinded
C9_Witness ==
  coin.unblindCalled /\ coin.signature.state = "blind"

\* the call has run on two RIS sequences of length COIN_RIS_LENGTH
JudgedFullLength ==
  /\ verdict.out # NoOutcome
  /\ Len(verdict.ris1) = COIN_RIS_LENGTH /\ Len(verdict.ris2) = COIN_RIS_LENGTH

VerdictTags == {"MerchantCheating", "SpenderCheating", "Inconclusive"}

\* C10 as stated: for every pair of RIS sequences of length COIN_RIS_LENGTH,
\* determineCheater returns a tagged value (one of MerchantCheating(guid),
\* SpenderCheating(guid, identity), Inconclusive(guid)) and raises no exception.
C10_ReturnsTaggedValue ==
  JudgedFullLength =>
    /\ ~verdict.out.threw
    /\ verdict.out.returned # undefined

\* C10 amended: determineCheater returns no value and delivers its verdict as a
\* printed line; for every pair of RIS sequences of length COIN_RIS_LENGTH whose
\* shares have equal lengths at every index, it prints exactly one of the three
\* verdicts (merchant cheating, double spending with the cheater's identity, no
\* clear cheater) for the given guid and raises no exception.
C10_PrintsOneVerdict ==
  (JudgedFullLength
     /\ \A i \in 1..COIN_RIS_LENGTH : Len(verdict.ris1[i]) = Len(verdict.ris2[i])) =>
    /\ ~verdict.out.threw
    /\ verdict.out.returned = undefined
    /\ verdict.out.printed.tag \in VerdictTags
    /\ verdict.out.printed.guid = verdict.guid

\* a scan that passed two cancelling indices and found the tag at the third
C10_Witness ==
  /\ JudgedFullLength
  /\ verdict.ris1[1] = verdict.ris2[1] /\ verdict.ris1[2] = verdict.ris2[2]
  /\ verdict.out = Printed("SpenderCheating", verdict.guid, <<97>>)

\* the keys under which a coin of the identity other holds, on the given side, the
\* shares that a coin of the identity owner holds under the keys k
Rekey(owner, other, k, side) ==
  [i \in 1..COIN_RIS_LENGTH |->
     IF side = "left"
     THEN XorBytes(k[i], XorBytes(identityTag(owner), identityTag(other)))
     ELSE k[i]]

\* what one acceptCoin call returns on an issued honest coin of the owner with
\* the keys k when it draws the given side
RisOf(owner, k, side) ==
  acceptCoin(Issued(CoinWithKeys(owner, Twenty, Guid, k, HonestForge)), side = "left").ris

\* C11: for any two identities of equal length, the RIS sequences that a single
\* acceptCoin call can return, over all keys and both draws, are the same set:
\* the RIS a merchant was given on a coin of one identity is also returned, on
\* the same draw, on a coin of the other identity under keys that it can draw
\* as well, one choice of keys for each choice of keys of the first.
C11_RisHidesIdentity ==
  \A m \in Merchants :
    (acc[m].status = "accepted" /\ built.owner \in LeakOwners) =>
      \A o \in LeakOwners :
        Len(o) = Len(built.owner) =>
          LET k == Rekey(built.owner, o, built.keys, acc[m].side) IN
          /\ k \in [1..COIN_RIS_LENGTH -> KeySpace]
          /\ Rekey(o, built.owner, k, acc[m].side) = built.keys
          /\ RisOf(o, k, acc[m].side) = acc[m].ris

\* a merchant was given the left shares of a coin of "a", another its right shares,
\* and both RIS are also those of a coin of "b"
C11_Witness ==
  /\ built.owner = <<97>>
  /\ acc[1].status = "accepted" /\ acc[1].side = "left"
  /\ acc[2].status = "accepted" /\ acc[2].side = "right"
  /\ acc[1].ris # acc[2].ris
  /\ \E k \in [1..COIN_RIS_LENGTH -> KeySpace] :
       k # built.keys /\ RisOf(<<98>>, k, "left") = acc[1].ris

\* determineCheater has run on its arguments
Judged == verdict.out # NoOutcome

\* C12 as stated: determineCheater reports MerchantCheating(guid) if and only if
\* ris1 and ris2 are equal element by element; on every pair that differs in an
\* element it goes on to the XOR scan, shares that contain ',' included.
C12_MerchantIffElementwiseEqual ==
  Judged =>
    /\ (verdict.out = Printed("MerchantCheating", verdict.guid, <<>>))
         <=> (verdict.ris1 = verdict.ris2)
    /\ verdict.ris1 # verdict.ris2 =>
         verdict.out = ScanRis(verdict.guid, verdict.ris1, verdict.ris2, 0)

\* two deposits that differ in the place of a ',' share were reported as a replay
C12_Witness ==
  /\ Judged
  /\ Len(verdict.ris1) = COIN_RIS_LENGTH /\ Len(verdict.ris2) = COIN_RIS_LENGTH
  /\ verdict.ris1[1] = <<Comma>> /\ verdict.ris2[1] = <<>>
  /\ verdict.ris1[2] = <<>> /\ verdict.ris2[2] = <<Comma>>
  /\ verdict.out = Printed("MerchantCheating", verdict.guid, <<>>)

\* the two deposits have shares of equal length at every index
EqualLengths ==
  \A i \in 1..COIN_RIS_LENGTH : Len(verdict.ris1[i]) = Len(verdict.ris2[i])

\* ris1[i] XOR ris2[i] of the adjudicated deposits, i counted from 0
XorAt(i) == XorBytes(verdict.ris1[i + 1], verdict.ris2[i + 1])

\* the XOR at index i begins with the fixed tag prefix
PrefixAt(i) == StartsWith(XorAt(i), IDENT_STR)

\* the XOR at index i, as text, after the prefix and its delimiter
RemainderAt(i) == Substring(BufferToString(XorAt(i)), Len(IDENT_STR) + 1)

\* C13 as stated: on two RIS sequences that are not equal element by element,
\* determineCheater reports SpenderCheating(guid, identity) at the lowest index
\* whose XOR begins with the tag prefix, the indices below it being skipped, with
\* identity exactly the remainder of that XOR after the prefix and its delimiter.
C13_LowestTaggedIndexNamesSpender ==
  (JudgedFullLength /\ EqualLengths /\ verdict.ris1 # verdict.ris2) =>
    \A i \in Indices :
      (PrefixAt(i) /\ \A j \in Indices : j < i => ~PrefixAt(j)) =>
        verdict.out = Printed("SpenderCheating", verdict.guid, RemainderAt(i))

\* two deposits that differ at every index and XOR to the tag of "alice" at index
\* 0 were adjudicated without the identity being reported
C13_Witness ==
  /\ JudgedFullLength /\ EqualLengths
  /\ \A i \in 1..COIN_RIS_LENGTH : verdict.ris1[i] # verdict.ris2[i]
  /\ PrefixAt(0) /\ RemainderAt(0) = Alice
  /\ verdict.out = Printed("MerchantCheating", verdict.guid, <<>>)

\* The scan of C13 on the pairs that the test of line 118 lets through: the lowest
\* index whose XOR begins with the prefix names the spender, and without such an
\* index no cheater is named.
ScanNamesLowestTaggedIndex ==
  (JudgedFullLength /\ EqualLengths /\ ~RisIdentical(verdict.ris1, verdict.ris2)) =>
    /\ \A i \in Indices :
         (PrefixAt(i) /\ \A j \in Indices : j < i => ~PrefixAt(j)) =>
           verdict.out = Printed("SpenderCheating", verdict.guid, RemainderAt(i))
    /\ (\A i \in Indices : ~PrefixAt(i)) =>
         verdict.out = Printed("Inconclusive", verdict.guid, <<>>)

\* C14 as stated: whenever two successful acceptCoin calls on an honestly
\* constructed coin drew opposite sides, determineCheater on their RIS sequences,
\* in either argument order, reports SpenderCheating with exactly the identity
\* the coin was constructed with.
C14_OppositeSidesNameOwner ==
  (Honest /\ TwoDeposits /\ ~SameDraws) =>
    verdict.out = Printed("SpenderCheating", coin.guid, built.owner)

\* the second merchant's deposit was adjudicated against the first one's, the two
\* had drawn opposite sides of an honest coin, and no spender was named
C14_Witness ==
  /\ Honest /\ TwoDeposits /\ ~SameDraws
  /\ verdict.from = <<2, 1>>
  /\ \A i \in Indices : PrefixAt(i) /\ RemainderAt(i) = built.owner
  /\ verdict.out.printed.tag # "SpenderCheating"

\* C15: for an honestly constructed coin, two successful acceptCoin calls return
\* RIS sequences that are equal element by element if and only if both calls
\* drew the same side.
C15_IdenticalRisIffSameSide ==
  \A m1, m2 \in Merchants :
    (Honest /\ m1 # m2 /\ acc[m1].status = "accepted" /\ acc[m2].status = "accepted") =>
      ((acc[m1].ris = acc[m2].ris) <=> (acc[m1].side = acc[m2].side))

\* two merchants accepted an honest coin on opposite sides and hold RIS sequences
\* that differ at every index, although the two decode to the same text
C15_Witness ==
  /\ Honest
  /\ acc[1].status = "accepted" /\ acc[1].side = "left"
  /\ acc[2].status = "accepted" /\ acc[2].side = "right"
  /\ \A i \in 1..COIN_RIS_LENGTH : acc[1].ris[i] # acc[2].ris[i]
  /\ RisIdentical(acc[1].ris, acc[2].ris)

\* C16: acceptCoin is read-only with respect to the coin.  A call, successful or
\* failed, leaves every field of the coin as it was, and so a coin that was
\* accepted and is presented again as it was is not refused for anything the
\* earlier call did: the later call draws a side, and on the same side it returns
\* the same RIS.
C16_AcceptCoinReadOnly ==
  /\ [][(\E m \in Merchants : acc'[m] # acc[m]) => coin' = coin]_vars
  /\ [](\A m1, m2 \in Merchants :
          (m1 < m2 /\ acc[m1].status = "accepted" /\ Ran(m2)
             /\ presented[m2] = presented[m1]) =>
            /\ acc[m2].side # "none"
            /\ acc[m2].side = acc[m1].side => acc[m2] = acc[m1])

\* a coin was accepted twice on the same side and still holds every share, its
\* signature and its string
C16_Witness ==
  /\ acc[1].status = "accepted" /\ acc[2].status = "accepted"
  /\ acc[1].side = "left" /\ acc[2].side = "left"
  /\ presented[1] = presented[2]
  /\ coin.leftIdent = acc[2].ris
  /\ coin.signature = presented[1].signature /\ toString(coin) = presented[1].coinString

\* C17: when acceptCoin calls run against one coin in any interleaving of their
\* steps, each call's side is its own draw: every share a call has gathered, and
\* every share of the RIS it returns, is the share of the side it drew, at its
\* index, whatever the other call drew and however far it got, and a call ends as
\* it would have ended alone on its draw.
C17_SideIsLocalToCall ==
  \A m \in Merchants :
    /\ acc[m].status \in {"running", "accepted"} =>
         \A i \in 1..Len(acc[m].ris) : acc[m].ris[i] = Held(acc[m].side)[i]
    /\ acc[m].status = "accepted" => Len(acc[m].ris) = COIN_RIS_LENGTH
    /\ acc[m].status \in {"accepted", "threw"} =>
         acc[m] = acceptCoin(coin, acc[m].side = "left")

\* the first call has gathered one share of the left side while the second call
\* has gathered two of the right side
C17_Witness ==
  /\ acc[1].status = "running" /\ acc[1].side = "left" /\ acc[1].revealed = 1
  /\ acc[2].status = "running" /\ acc[2].side = "right" /\ acc[2].revealed = 2
  /\ acc[1].ris[1] = coin.leftIdent[1] /\ acc[2].ris[2] = coin.rightIdent[2]
  /\ acc[1].ris[1] # coin.rightIdent[1]

\* C18: determineCheater is pure and idempotent.  A call leaves the coin and the
\* RIS sequences of the merchants as they were, and a call with the guid, ris1 and
\* ris2 of the call before it, at whatever later point, reports what that call
\* reported.
C18_AdjudicationIsPure ==
  [][/\ verdict' # verdict => (coin' = coin /\ acc' = acc)
     /\ (Judged /\ verdict'.guid = verdict.guid
          /\ verdict'.ris1 = verdict.ris1 /\ verdict'.ris2 = verdict.ris2) =>
         verdict'.out = verdict.out]_vars

\* the deposits were adjudicated after the signature of the coin was assigned
\* again, against each other and named the spender
C18_Witness ==
  /\ Judged /\ TwoDeposits
  /\ coin.signature.state = "blind" /\ coin.unblindCalled
  /\ verdict.ris1 = acc[verdict.from[1]].ris /\ verdict.ris2 = acc[verdict.from[2]].ris
  /\ verdict.out = Printed("SpenderCheating", coin.guid, built.owner)

\* C19: the verdict does not depend on which deposit arrived first.  For every
\* guid and every pair of RIS sequences of length COIN_RIS_LENGTH with shares of
\* equal length, determineCheater(guid, ris1, ris2) and determineCheater(guid,
\* ris2, ris1) report the same outcome and, for a double spend, the same identity.
C19_ArgumentOrderIrrelevant ==
  (JudgedFullLength /\ EqualLengths) =>
    verdict.out = determineCheater(verdict.guid, verdict.ris2, verdict.ris1)

\* a double spend was reported on two deposits that differ at index 0, and is
\* reported with the same identity on the deposits in the other order
C19_Witness ==
  /\ JudgedFullLength /\ EqualLengths
  /\ verdict.ris1[1] # verdict.ris2[1]
  /\ verdict.out = Printed("SpenderCheating", verdict.guid, <<97>>)
  /\ determineCheater(verdict.guid, verdict.ris2, verdict.ris1) = verdict.out
  /\ RisJoin(verdict.ris1) # RisJoin(verdict.ris2)

=============================================================================
